---- MODULE Spec2Model ----
(***************************************************************************)
(* Model of the doubly-linked list of libads (src/src/list.c).             *)
(*                                                                         *)
(* The C heap is modelled explicitly: node records, payload holders        *)
(* (list_data_t) and payload buffers are three pools of objects, each      *)
(* "unalloc", "live" or "freed".  malloc always hands out a fresh object,  *)
(* so a freed object keeps its last contents and a dangling pointer can be *)
(* followed.  A use of freed memory, a double free and a read past the end *)
(* of a buffer are undefined behaviour: a call either faults there (a      *)
(* "strict" run) or carries on with the stale contents.  Each list         *)
(* function is an operator on an execution record                          *)
(* [h, strict, log, ub, out, ret]: the heap, the allocations / frees /     *)
(* field writes made so far in order, whether undefined behaviour was      *)
(* committed, how the call ended and what it returned.                     *)
(***************************************************************************)
EXTENDS Integers, Sequences, FiniteSets, TLC

\* Number of objects of each kind malloc can hand out in one run.
MaxNodes == 3

\* The null pointer.
NULL == 0

\* Contents of a pointer field that was never assigned.
UNINIT == -1

Ids == 1..MaxNodes

\* Caller payloads: byte strings of different lengths, one a prefix of another.
Payloads == {<<1>>, <<2>>, <<1, 2>>}

\* A caller's payload argument that is the null pointer.
NULLP == <<0>>

FieldsNode == [st |-> "unalloc", next |-> UNINIT, prev |-> UNINIT, data |-> UNINIT]
FieldsHold == [st |-> "unalloc", size |-> 0, payload |-> UNINIT]
FieldsBuf == [st |-> "unalloc", bytes |-> <<>>]

EmptyHeap ==
    [node |-> [i \in Ids |-> FieldsNode],
     hold |-> [i \in Ids |-> FieldsHold],
     buf  |-> [i \in Ids |-> FieldsBuf]]

----------------------------------------------------------------------------
(* Execution records and the primitive memory operations.                  *)

Start(h, strict) ==
    [h |-> h, strict |-> strict, log |-> <<>>, ub |-> FALSE, out |-> "run",
     ret |-> NULL]

Ev(e, k, id) == [e |-> e, k |-> k, id |-> id]

\* return v;
Return(x, v) == IF x.out = "run" THEN [x EXCEPT !.out = "ret", !.ret = v] ELSE x

\* A failed assert() aborts the process.
Abort(x) == IF x.out = "run" THEN [x EXCEPT !.out = "abort"] ELSE x

\* A dereference of a null or wild pointer ends the process.
Fault(x) == IF x.out = "run" THEN [x EXCEPT !.out = "fault"] ELSE x

\* A loop that never leaves a cycle of forward links.
Hang(x) == IF x.out = "run" THEN [x EXCEPT !.out = "hang"] ELSE x

\* Undefined behaviour: a strict run faults, another run carries on.
Undefined(x) ==
    IF x.out # "run" THEN x
    ELSE IF x.strict THEN Fault(x) ELSE [x EXCEPT !.ub = TRUE]

\* The object a pointer p of kind k refers to is allocated memory.
Mapped(h, k, p) == p \in Ids /\ h[k][p].st # "unalloc"

\* The object malloc hands out next.
Fresh(h, k) == Cardinality({i \in Ids : h[k][i].st # "unalloc"}) + 1

\* malloc of an object of kind k that returned p: NULL when it failed.
malloc(x, k, p) ==
    IF x.out # "run" THEN x
    ELSE IF p = NULL THEN [x EXCEPT !.log = Append(@, Ev("nomem", k, p))]
    ELSE [x EXCEPT !.h[k][p].st = "live", !.log = Append(@, Ev("alloc", k, p))]

\* x after the code has dereferenced pointer p of kind k.
Deref(x, k, p) ==
    IF x.out # "run" THEN x
    ELSE IF ~Mapped(x.h, k, p) THEN Fault(x)
    ELSE IF x.h[k][p].st = "freed" THEN Undefined(x)
    ELSE x

\* The value of field f of object p, as the code reads it after Deref.
Field(h, k, p, f) == IF p \in Ids THEN h[k][p][f] ELSE NULL

\* p->f = v
Store(x, k, p, f, v) ==
    LET y == Deref(x, k, p) IN
    IF y.out # "run" THEN y
    ELSE [y EXCEPT !.h[k][p][f] = v, !.log = Append(@, Ev(f, k, p))]

\* A free that releases nothing.
free_none(x, k, p) == x

\* free(p): free(NULL) does nothing; freeing freed memory is a double free.
free(x, k, p) ==
    IF x.out # "run" \/ p = NULL THEN x
    ELSE IF ~Mapped(x.h, k, p) THEN Fault(x)
    ELSE LET y == IF x.h[k][p].st = "freed" THEN Undefined(x) ELSE x
         IN  IF y.out # "run" THEN y
             ELSE [y EXCEPT !.h[k][p].st = "freed",
                            !.log = Append(@, Ev("free", k, p))]

\* A copy that leaves out the last byte.
memcpy_short(x, dest, src, n) ==
    Store(x, "buf", dest, "bytes", SubSeq(src, 1, n - 1))

\* memcpy(dest, src, n) into a payload buffer: the n bytes are copied, the
\* buffer keeps no reference to src.
memcpy(x, dest, src, n) == Store(x, "buf", dest, "bytes", SubSeq(src, 1, n))

free_node(x, ptr_node) ==
    LET x1 == Deref(x, "node", ptr_node)
        data == Field(x1.h, "node", ptr_node, "data")
        x2 == Deref(x1, "hold", data)
        x3 == free(x2, "buf", Field(x2.h, "hold", data, "payload"))
        x4 == free(x3, "hold", data)
    IN  free(x4, "node", ptr_node)

----------------------------------------------------------------------------
(* list_init                                                               *)

list_init(x0, payload, size, fail) ==
    IF payload = NULLP \/ size <= 0 THEN Return(x0, NULL)
    ELSE
    LET ptr_data == IF fail = "data" THEN NULL ELSE Fresh(x0.h, "hold")
        x1 == malloc(x0, "hold", ptr_data)
    IN
    IF ptr_data = NULL THEN Return(free(x1, "hold", ptr_data), NULL)
    ELSE
    LET x2 == Store(x1, "hold", ptr_data, "size", size)
        buf == IF fail = "payload" THEN NULL ELSE Fresh(x0.h, "buf")
        x3 == Store(malloc(x2, "buf", buf), "hold", ptr_data, "payload", buf)
    IN
    IF buf = NULL
    THEN Return(free(free(x3, "buf", buf), "hold", ptr_data), NULL)
    ELSE
    LET x4 == memcpy(x3, buf, payload, size)
        ptr_node == IF fail = "node" THEN NULL ELSE Fresh(x0.h, "node")
        x5 == malloc(x4, "node", ptr_node)
    IN
    IF ptr_node = NULL
    THEN Return(free(free(free(x5, "node", ptr_node), "buf", buf),
                     "hold", ptr_data), NULL)
    ELSE
    LET x6 == Store(x5, "node", ptr_node, "data", ptr_data)
        x7 == Store(x6, "node", ptr_node, "next", NULL)
        x8 == Store(x7, "node", ptr_node, "prev", NULL)
    IN  Return(x8, ptr_node)

----------------------------------------------------------------------------
(* Forward traversal and list_len                                          *)

\* The nodes a loop "while(p != NULL) p = p->next" visits from p, cut after
\* fuel nodes.  It stops early at a pointer that is no allocated node.
RECURSIVE Chain(_, _, _)
Chain(h, p, fuel) ==
    IF p = NULL \/ fuel = 0 \/ ~Mapped(h, "node", p) THEN <<>>
    ELSE <<p>> \o Chain(h, h.node[p].next, fuel - 1)

\* The pointer value at which that loop is after Len(c) nodes.
ChainStop(h, p, c) == IF c = <<>> THEN p ELSE h.node[c[Len(c)]].next

\* Every allocated node is distinct, so a longer walk is inside a cycle.
Forward(h, p) == Chain(h, p, MaxNodes + 1)

Cyclic(c) == Len(c) > MaxNodes

\* x after the loop has read all the nodes of c.
Visited(x, c) ==
    IF \E i \in 1..Len(c) : x.h.node[c[i]].st = "freed" THEN Undefined(x) ELSE x

list_len(x, root) ==
    LET c == Forward(x.h, root)
        y == Visited(x, c)
    IN  IF Cyclic(c) THEN Hang(y)
        ELSE IF ChainStop(x.h, root, c) # NULL THEN Fault(y)
        ELSE IF y.out = "run" THEN [y EXCEPT !.ret = Len(c)] ELSE y

----------------------------------------------------------------------------
(* list_insert                                                             *)

\* The position check, off by one: a position one past the end passes.
insert_out_of_range_late(len, pos) == pos > len + 1

\* The position check of list_insert.
insert_out_of_range(len, pos) == pos > len

\* The loop that walks pos hops from the root, remembering the node before.
RECURSIVE insert_walk(_, _, _, _)
insert_walk(x, ptr_prev, ptr_pos, pos) ==
    IF pos = 0 \/ x.out # "run"
    THEN [x |-> x, ptr_prev |-> ptr_prev, ptr_pos |-> ptr_pos]
    ELSE IF ptr_pos = NULL
    THEN [x |-> Abort(x), ptr_prev |-> ptr_pos, ptr_pos |-> ptr_pos]
    ELSE LET y == Deref(x, "node", ptr_pos)
         IN  insert_walk(y, ptr_pos, Field(y.h, "node", ptr_pos, "next"), pos - 1)

\* Appending at the end.
insert_append(x, ptr_node, ptr_prev) ==
    IF ptr_node = NULL \/ ptr_prev = NULL THEN Abort(x)
    ELSE
    LET x1 == Store(x, "node", ptr_node, "next", NULL)
        x2 == Store(x1, "node", ptr_node, "prev", ptr_prev)
    IN  Store(x2, "node", ptr_prev, "next", ptr_node)

\* Beginning of the list.
insert_front(x, ptr_node, ptr_pos, ptr_root) ==
    IF ptr_node = NULL \/ ptr_pos = NULL THEN Abort(x)
    ELSE
    LET x1 == Store(x, "node", ptr_node, "next", ptr_root)
        x2 == Store(x1, "node", ptr_node, "prev", NULL)
    IN  Store(x2, "node", ptr_pos, "prev", ptr_node)

\* Adding in the middle.  The last statement reads ptr_pos->prev again,
\* after it has been overwritten with ptr_node.
insert_middle(x, ptr_node, ptr_pos) ==
    IF ptr_node = NULL \/ ptr_pos = NULL
       \/ Field(x.h, "node", ptr_pos, "prev") = NULL THEN Abort(x)
    ELSE
    LET x1 == Store(x, "node", ptr_node, "next", ptr_pos)
        x2 == Store(x1, "node", ptr_node, "prev", Field(x1.h, "node", ptr_pos, "prev"))
        x3 == Store(x2, "node", ptr_pos, "prev", ptr_node)
    IN  Store(x3, "node", Field(x3.h, "node", ptr_pos, "prev"), "next", ptr_node)

\* The contents this run finds in field f of the fresh, unwritten object p.
Indeterminate(x, k, p, f, v) ==
    IF x.out # "run" \/ p = NULL THEN x ELSE [x EXCEPT !.h[k][p][f] = v]

\* malloc(0) returns either a null pointer or a pointer to no bytes (m0).
\* garbage is what the unwritten data field of the new node holds.
list_insert(x0, ptr_root, payload, size, pos, fail, m0, garbage) ==
    IF ptr_root = NULL \/ payload = NULLP THEN Return(x0, NULL)
    ELSE
    LET xl == list_len(x0, ptr_root) IN
    IF xl.out # "run" THEN xl
    ELSE IF insert_out_of_range(xl.ret, pos) THEN Return(xl, NULL)
    ELSE
    LET w == insert_walk(xl, NULL, ptr_root, pos)
        ptr_prev == w.ptr_prev
        ptr_pos == w.ptr_pos
        ptr_node == IF fail = "node" THEN NULL ELSE Fresh(x0.h, "node")
        x1 == Indeterminate(malloc(w.x, "node", ptr_node),
                            "node", ptr_node, "data", garbage)
        ptr_data == IF fail = "data" THEN NULL ELSE Fresh(x0.h, "hold")
        x2 == malloc(x1, "hold", ptr_data)
        buf == IF fail = "payload" \/ (size = 0 /\ m0 = "null")
               THEN NULL ELSE Fresh(x0.h, "buf")
        x3 == Store(malloc(x2, "buf", buf), "hold", ptr_data, "payload", buf)
    IN
    IF ptr_node = NULL \/ ptr_data = NULL \/ buf = NULL
    THEN Return(free_node(x3, ptr_node), NULL)
    ELSE
    LET x4 == Deref(x3, "node", ptr_pos)
        front == ptr_pos # NULL /\ Field(x3.h, "node", ptr_pos, "prev") = NULL
        x5 == IF ptr_pos = NULL THEN insert_append(x3, ptr_node, ptr_prev)
              ELSE IF front THEN insert_front(x4, ptr_node, ptr_pos, ptr_root)
              ELSE insert_middle(x4, ptr_node, ptr_pos)
        x6 == memcpy(x5, buf, payload, size)
        x7 == Store(x6, "hold", ptr_data, "size", size)
        x8 == Store(x7, "node", ptr_node, "data", ptr_data)
    IN  Return(x8, IF front THEN ptr_node ELSE ptr_root)

----------------------------------------------------------------------------
(* list_get                                                                *)

\* A walk that stays at ptr_root.
get_walk_none(x, ptr_root, pos) == [x |-> x, ptr_root |-> ptr_root]

\* The loop that walks pos hops from ptr_root.
RECURSIVE get_walk(_, _, _)
get_walk(x, ptr_root, pos) ==
    IF pos = 0 \/ x.out # "run" THEN [x |-> x, ptr_root |-> ptr_root]
    ELSE IF ptr_root = NULL THEN [x |-> Abort(x), ptr_root |-> ptr_root]
    ELSE LET y == Deref(x, "node", ptr_root)
         IN  get_walk(y, Field(y.h, "node", ptr_root, "next"), pos - 1)

\* Returns the payload buffer of the node at position pos.
list_get(x0, ptr_root, pos) ==
    IF ptr_root = NULL THEN Return(x0, NULL)
    ELSE
    LET xl == list_len(x0, ptr_root) IN
    IF xl.out # "run" THEN xl
    ELSE IF pos >= xl.ret THEN Return(xl, NULL)
    ELSE
    LET w == get_walk(xl, ptr_root, pos)
        x1 == Deref(w.x, "node", w.ptr_root)
        data == Field(x1.h, "node", w.ptr_root, "data")
        x2 == Deref(x1, "hold", data)
    IN  Return(x2, Field(x2.h, "hold", data, "payload"))

----------------------------------------------------------------------------
(* list_del                                                                *)

\* memcmp(stored, payload, size) == 0.  It reads size bytes of both buffers
\* whatever the stored size is; over says how the bytes past the end of a
\* shorter stored buffer compare.
memcmp_equal(stored, payload, size, over) ==
    IF Len(stored) >= size THEN SubSeq(stored, 1, size) = SubSeq(payload, 1, size)
    ELSE IF stored # SubSeq(payload, 1, Len(stored)) THEN FALSE
    ELSE over

\* The comparison of a node's payload with the caller's: the execution
\* record after it and its result.
payload_match(x, ptr_node, payload, size, ovm) ==
    LET x1 == Deref(x, "node", ptr_node)
        data == Field(x1.h, "node", ptr_node, "data")
        x2 == Deref(x1, "hold", data)
        buf == Field(x2.h, "hold", data, "payload")
        x3 == Deref(x2, "buf", buf)
        stored == Field(x3.h, "buf", buf, "bytes")
        x4 == IF x3.out = "run" /\ Len(stored) < size THEN Undefined(x3) ELSE x3
    IN  [x |-> x4,
         eq |-> x4.out = "run" /\ memcmp_equal(stored, payload, size, ptr_node \in ovm)]

\* First node is followed by at least one more node.
del_root_more(x, ptr_node) ==
    LET temp == Field(x.h, "node", ptr_node, "next")
        x1 == Store(x, "node", temp, "prev", NULL)
    IN  Return(free_node(x1, ptr_node), temp)

\* First node is the only one in the list.
del_root_only(x, ptr_node) == Return(free_node(x, ptr_node), NULL)

\* The interior case without the update of the predecessor's forward link.
del_interior_half(x, ptr_node, ptr_root) ==
    LET next == Field(x.h, "node", ptr_node, "next")
        prev == Field(x.h, "node", ptr_node, "prev")
        x1 == Store(x, "node", next, "prev", prev)
    IN  Return(free_node(x1, ptr_node), ptr_root)

\* Node is followed by at least one more node.
del_interior(x, ptr_node, ptr_root) ==
    LET next == Field(x.h, "node", ptr_node, "next")
        prev == Field(x.h, "node", ptr_node, "prev")
        x1 == Store(x, "node", next, "prev", prev)
        x2 == Store(x1, "node", Field(x1.h, "node", ptr_node, "prev"), "next",
                    Field(x1.h, "node", ptr_node, "next"))
    IN  Return(free_node(x2, ptr_node), ptr_root)

\* Node is the last in the list.
del_tail(x, ptr_node, ptr_root) ==
    LET x1 == Store(x, "node", Field(x.h, "node", ptr_node, "prev"), "next", NULL)
    IN  Return(free_node(x1, ptr_node), ptr_root)

\* The four structural cases of a matched node.
del_case(h, ptr_node) ==
    IF Field(h, "node", ptr_node, "prev") = NULL
    THEN IF Field(h, "node", ptr_node, "next") # NULL THEN "root_more" ELSE "root_only"
    ELSE IF Field(h, "node", ptr_node, "next") # NULL THEN "interior" ELSE "tail"

del_matched(x, ptr_node, ptr_root) ==
    LET c == del_case(x.h, ptr_node) IN
    IF c = "root_more" THEN del_root_more(x, ptr_node)
    ELSE IF c = "root_only" THEN del_root_only(x, ptr_node)
    ELSE IF c = "interior" THEN del_interior(x, ptr_node, ptr_root)
    ELSE del_tail(x, ptr_node, ptr_root)

\* The scanning loop; falling out of it reaches assert(0).
RECURSIVE del_scan(_, _, _, _, _, _, _)
del_scan(x, ptr_node, ptr_root, payload, size, ovm, fuel) ==
    IF x.out # "run" THEN x
    ELSE IF ptr_node = NULL THEN Abort(x)
    ELSE IF fuel = 0 THEN Hang(x)
    ELSE LET m == payload_match(x, ptr_node, payload, size, ovm) IN
         IF m.eq THEN del_matched(m.x, ptr_node, ptr_root)
         ELSE del_scan(m.x, Field(m.x.h, "node", ptr_node, "next"), ptr_root,
                       payload, size, ovm, fuel - 1)

list_del(x0, ptr_root, payload, size, ovm) ==
    del_scan(x0, ptr_root, ptr_root, payload, size, ovm, MaxNodes + 1)

----------------------------------------------------------------------------
(* list_search                                                             *)

\* The loop of list_search: the first node whose payload memcmp finds equal
\* in size bytes, NULL past the last node.
RECURSIVE search_scan(_, _, _, _, _, _)
search_scan(x, ptr_root, payload, size, ovm, fuel) ==
    IF x.out # "run" THEN x
    ELSE IF ptr_root = NULL THEN Return(x, NULL)
    ELSE IF fuel = 0 THEN Hang(x)
    ELSE LET m == payload_match(x, ptr_root, payload, size, ovm) IN
         IF m.eq THEN Return(m.x, ptr_root)
         ELSE search_scan(m.x, Field(m.x.h, "node", ptr_root, "next"),
                          payload, size, ovm, fuel - 1)

list_search(x0, ptr_root, payload, size, ovm) ==
    search_scan(x0, ptr_root, payload, size, ovm, MaxNodes + 1)

----------------------------------------------------------------------------
(* list_destroy                                                            *)

RECURSIVE destroy_loop(_, _, _)
destroy_loop(x, root, fuel) ==
    IF x.out # "run" \/ root = NULL THEN x
    ELSE IF fuel = 0 THEN Hang(x)
    ELSE LET x1 == Deref(x, "node", root)
             next == Field(x1.h, "node", root, "next")
         IN  destroy_loop(free_node(x1, root), next, fuel - 1)

list_destroy(x0, root) ==
    LET x1 == Deref(x0, "node", root)
        prev == Field(x1.h, "node", root, "prev")
        x2 == IF prev # NULL THEN Store(x1, "node", prev, "next", NULL) ELSE x1
    IN  Return(destroy_loop(x2, root, MaxNodes + 1), NULL)

----------------------------------------------------------------------------
(* The caller: one list, whose root is the reference the last call         *)
(* returned.                                                               *)

VARIABLES
    heap,       \* the C heap
    root,       \* the caller's root reference, NULL when it has no list
    status,     \* "run", or how the process ended: "abort", "fault", "hang"
    count,      \* successful insertions and deletions on this list, and
                \* whether any other call has touched the heap
    last,       \* the last call: its arguments, the heap before, its outcome
    prt         \* the activation of list_print, "idle" when there is none

vars == <<heap, root, status, count, last, prt>>

list == <<heap, root, status, count, last>>

NoCall ==
    [op |-> "none", payload |-> <<>>, size |-> 0, pos |-> 0, fail |-> "none",
     node |-> NULL, pre |-> EmptyHeap, preRoot |-> NULL, log |-> <<>>,
     ub |-> FALSE, out |-> "ret", ret |-> NULL]

\* No call of list_print has been made.
NoPrint ==
    [pc |-> "idle", n |-> 0, root |-> NULL, buff |-> <<>>, owned |-> "none",
     buff_ptr |-> 0, curr_buff_size |-> 0, calls |-> <<>>, within |-> TRUE,
     ub |-> FALSE, ret |-> "none"]

Init ==
    /\ prt = NoPrint
    /\ heap = EmptyHeap
    /\ root = NULL
    /\ status = "run"
    /\ count = [ins |-> 0, del |-> 0, other |-> FALSE]
    /\ last = NoCall

\* No more than MaxNodes insertions succeed, so a count of deletions is
\* kept up to MaxNodes + 1 (more deletions than insertions).
Counted(n) == IF n > MaxNodes THEN MaxNodes + 1 ELSE n

\* Room for one more node, holder and buffer.
CanAlloc == \A k \in {"node", "hold", "buf"} : Fresh(heap, k) <= MaxNodes

\* The payload arguments a caller passes: bytes with their length, no bytes
\* with length zero, or a null pointer.
Args == {[payload |-> b, size |-> Len(b)] : b \in Payloads \cup {<<>>}}
        \cup {[payload |-> NULLP, size |-> 1]}

Fails == {"none", "node", "data", "payload"}

\* The calls tried: every argument with no allocation failure, and each
\* allocation failure with one payload.
Calls == {c \in [a : Args, fail : Fails] : c.fail = "none" \/ c.a.payload = <<1>>}

\* The ways a run treats undefined behaviour, for a call that ends as x
\* when it carries on: a call that commits none has a single outcome.
Runs(x) == IF x.ub THEN BOOLEAN ELSE {FALSE}

\* The call got as far as asking for memory.
Allocates(x) == \E i \in 1..Len(x.log) : x.log[i].e \in {"alloc", "nomem"}

\* The state after a call that ended as x.
Called(op, a, pos, fail, node, x) ==
    /\ heap' = x.h
    /\ status' = IF x.out = "ret" THEN "run" ELSE x.out
    /\ last' = [op |-> op, payload |-> a.payload, size |-> a.size, pos |-> pos,
                fail |-> fail, node |-> node, pre |-> heap, preRoot |-> root,
                log |-> x.log, ub |-> x.ub, out |-> x.out, ret |-> x.ret]
    /\ UNCHANGED prt

ListInit ==
    /\ status = "run" /\ root = NULL /\ CanAlloc
    /\ \E c \in Calls :
       \E x \in {list_init(Start(heap, FALSE), c.a.payload, c.a.size, c.fail)} :
         /\ c.fail # "none" => Allocates(x)
         /\ Called("init", c.a, 0, c.fail, NULL, x)
         /\ root' = x.ret
         /\ count' = IF x.ret # NULL THEN [ins |-> 1, del |-> 0, other |-> FALSE]
                     ELSE [count EXCEPT !.other = @ \/ Allocates(x)]

ListInsert ==
    /\ status = "run" /\ CanAlloc
    /\ \E c \in Calls, pos \in 0..(MaxNodes + 1) :
       \E m0 \in IF c.a.size = 0 THEN {"null", "ptr"} ELSE {"ptr"} :
       \E garbage \in IF c.fail = "payload" \/ m0 = "null" THEN 0..MaxNodes ELSE {NULL} :
       \E lax \in {list_insert(Start(heap, FALSE), root, c.a.payload, c.a.size,
                                pos, c.fail, m0, garbage)} :
       \E strict \in Runs(lax) :
       \E x \in {IF strict
                 THEN list_insert(Start(heap, TRUE), root, c.a.payload, c.a.size,
                                  pos, c.fail, m0, garbage)
                 ELSE lax} :
         /\ c.fail # "none" \/ m0 = "null" => Allocates(x)
         /\ Called("insert", c.a, pos, c.fail, NULL, x)
         /\ root' = IF x.out = "ret" /\ x.ret # NULL THEN x.ret ELSE root
         /\ count' = IF x.out = "ret" /\ x.ret # NULL
                     THEN [count EXCEPT !.ins = @ + 1]
                     ELSE [count EXCEPT !.other = @ \/ Allocates(x)]

\* The nodes whose stored payload is a proper prefix of the caller's: what
\* memcmp finds past their end is not determined.
Overread(h, payload, size) ==
    {n \in Ids :
        /\ Mapped(h, "node", n)
        /\ Mapped(h, "hold", h.node[n].data)
        /\ Mapped(h, "buf", h.hold[h.node[n].data].payload)
        /\ LET stored == h.buf[h.hold[h.node[n].data].payload].bytes
           IN  Len(stored) < size /\ stored = SubSeq(payload, 1, Len(stored))}

ListDel ==
    /\ status = "run"
    /\ \E b \in Payloads :
       \E ovm \in SUBSET Overread(heap, b, Len(b)) :
       \E lax \in {list_del(Start(heap, FALSE), root, b, Len(b), ovm)} :
       \E strict \in Runs(lax) :
       \E x \in {IF strict THEN list_del(Start(heap, TRUE), root, b, Len(b), ovm)
                 ELSE lax} :
         LET a == [payload |-> b, size |-> Len(b)] IN
         /\ Called("del", a, 0, "none", NULL, x)
         /\ root' = IF x.out = "ret" THEN x.ret ELSE root
         /\ count' = IF x.out = "ret" THEN [count EXCEPT !.del = Counted(@ + 1)]
                     ELSE count

\* list_destroy on a reference to any live node; the caller drops a root
\* reference that was destroyed.
ListDestroy ==
    /\ status = "run"
    /\ \E n \in {i \in Ids : heap.node[i].st = "live"} :
       \E lax \in {list_destroy(Start(heap, FALSE), n)} :
       \E strict \in Runs(lax) :
       \E x \in {IF strict THEN list_destroy(Start(heap, TRUE), n) ELSE lax} :
         /\ Called("destroy", [payload |-> <<>>, size |-> 0], 0, "none", n, x)
         /\ root' = IF root # NULL /\ x.h.node[root].st = "live" THEN root ELSE NULL
         /\ count' = [count EXCEPT !.other = TRUE]

Next == ListInit \/ ListInsert \/ ListDel \/ ListDestroy

Spec == Init /\ [][Next]_vars

----------------------------------------------------------------------------
(* The caller's queries: list_search, list_get and list_len, and its write *)
(* to the buffer it passed to the last call.  They write to no memory of   *)
(* the list, so the calls that can follow a query are those that can       *)
(* follow the state it was made in: a behaviour is followed up to its      *)
(* first query.                                                            *)

Queries == {"search", "get", "len", "write"}

Unqueried == status = "run" /\ last.op \notin Queries

\* The references a caller can hold: none, or any live node.
References == {NULL} \cup {i \in Ids : heap.node[i].st = "live"}

Queried(op, a, pos, node, x) ==
    /\ Called(op, a, pos, "none", node, x)
    /\ UNCHANGED <<root, count>>

ListSearch ==
    /\ Unqueried
    /\ \E b \in Payloads :
       \E ovm \in SUBSET Overread(heap, b, Len(b)) :
       \E lax \in {list_search(Start(heap, FALSE), root, b, Len(b), ovm)} :
       \E strict \in Runs(lax) :
       \E x \in {IF strict THEN list_search(Start(heap, TRUE), root, b, Len(b), ovm)
                 ELSE lax} :
         Queried("search", [payload |-> b, size |-> Len(b)], 0, root, x)

ListGet ==
    /\ Unqueried
    /\ \E n \in References, pos \in 0..MaxNodes :
       \E lax \in {list_get(Start(heap, FALSE), n, pos)} :
       \E strict \in Runs(lax) :
       \E x \in {IF strict THEN list_get(Start(heap, TRUE), n, pos) ELSE lax} :
         Queried("get", [payload |-> <<>>, size |-> 0], pos, n, x)

ListLen ==
    /\ Unqueried
    /\ \E n \in References :
       \E lax \in {list_len(Start(heap, FALSE), n)} :
       \E strict \in Runs(lax) :
       \E x \in {IF strict THEN list_len(Start(heap, TRUE), n) ELSE lax} :
         Queried("len", [payload |-> <<>>, size |-> 0], 0, n, Return(x, x.ret))

\* Other bytes of the same length.
Scribble(b) == [i \in 1..Len(b) |-> 3 - b[i]]

\* After a call that made a node of its payload, the caller overwrites its
\* own buffer: an object that is none of the heap's, since memcpy left the
\* node's buffer no reference to it.  last keeps the call, with the bytes
\* the caller's buffer holds now and the node the call made.
CallerWrite ==
    /\ Unqueried
    /\ last.op \in {"init", "insert"} /\ last.out = "ret" /\ last.ret # NULL
    /\ last' = [last EXCEPT !.op = "write", !.payload = Scribble(@),
                            !.node = CHOOSE n \in Ids : Ev("alloc", "node", n) \in
                                         {last.log[i] : i \in 1..Len(last.log)}]
    /\ UNCHANGED <<heap, root, status, count, prt>>

Mutation == Unqueried /\ Next

NextQuery == Mutation \/ ListSearch \/ ListGet \/ ListLen \/ CallerWrite

SpecQuery == Init /\ [][NextQuery]_vars

----------------------------------------------------------------------------
(* list_print, one step at a time.  It reads the list only through         *)
(* root->next and root->data->payload, so the list is given by the number  *)
(* n of nodes on its forward chain and root is a position on it.  A byte   *)
(* of the output buffer is 0, 1 (written by the callback) or 2 (any other  *)
(* value).                                                                 *)

LIST_PRINT_BUFF_SIZE == 16

REALLOC_THRESHOLD == 8

MaxPrintNodes == 5

\* What a callback returns: -1 for failure, or the number of bytes written.
Written == {-1, 0, 5, 8, 9}

\* What realloc leaves in the bytes it adds: they are not initialised.
Indeterminates == {0, 2}

\* n bytes of buff from offset at set to byte b; bytes past the end of buff
\* are not its own.
Fill(buff, at, n, b) ==
    [i \in 1..Len(buff) |-> IF at < i /\ i <= at + n THEN b ELSE buff[i]]

memset(buff, at, n) == Fill(buff, at, n, 0)

Overflows(buff, at, n) == at + n > Len(buff)

\* realloc(buff, size): the old bytes, then indeterminate ones.
realloc(buff, size, junk) == buff \o [i \in 1..(size - Len(buff)) |-> junk]

\* A growth test that waits for the buffer to be full.
needs_growth_full(buff_ptr, curr_buff_size) == buff_ptr > curr_buff_size

\* if(buff_ptr > curr_buff_size - REALLOC_THRESHOLD)
needs_growth(buff_ptr, curr_buff_size) ==
    buff_ptr > curr_buff_size - REALLOC_THRESHOLD

\* root = root->next
print_next(p) == IF p.root = p.n THEN NULL ELSE p.root + 1

\* An access past the end of the buffer is undefined: the run faults or
\* carries on.
PrintUndefined(p, strict) ==
    IF strict THEN [p EXCEPT !.pc = "fault"] ELSE [p EXCEPT !.ub = TRUE]

\* The call up to the loop: malloc and memset of the buffer, whose result
\* is not tested, then the test of the callback.
PrintCall ==
    /\ prt.pc = "idle"
    /\ \E n \in 0..MaxPrintNodes, print_payload \in {"fn", "null"}, nomem \in BOOLEAN :
         prt' =
            IF nomem THEN [prt EXCEPT !.pc = "fault", !.n = n]
            ELSE LET p == [prt EXCEPT !.n = n,
                                      !.curr_buff_size = LIST_PRINT_BUFF_SIZE,
                                      !.buff = memset([i \in 1..LIST_PRINT_BUFF_SIZE |-> 2],
                                                      0, LIST_PRINT_BUFF_SIZE),
                                      !.owned = "live"]
                 IN  IF print_payload = "null"
                     THEN [p EXCEPT !.pc = "done", !.ret = "null"]
                     ELSE [p EXCEPT !.pc = "loop",
                                    !.root = IF n = 0 THEN NULL ELSE 1]
    /\ UNCHANGED list

\* One callback invocation and the advance of the write cursor.
PrintPayload ==
    /\ prt.pc = "loop" /\ prt.root # NULL
    /\ \E written \in Written :
       \E strict \in IF written > 0 /\ Overflows(prt.buff, prt.buff_ptr, written)
                     THEN BOOLEAN ELSE {FALSE} :
         LET p == [prt EXCEPT !.calls = Append(@, prt.root)] IN
         prt' =
            IF written = -1
            THEN [p EXCEPT !.owned = "freed", !.pc = "done", !.ret = "null"]
            ELSE LET q == [p EXCEPT !.buff = Fill(@, prt.buff_ptr, written, 1),
                                    !.buff_ptr = @ + written,
                                    !.within = @ /\ written <= REALLOC_THRESHOLD,
                                    !.pc = "grow"]
                 IN  IF Overflows(prt.buff, prt.buff_ptr, written)
                     THEN PrintUndefined(q, strict) ELSE q
    /\ UNCHANGED list

\* The growth of the buffer when the headroom is short, and the step to
\* the next node.
PrintGrow ==
    /\ prt.pc = "grow"
    /\ LET grow == needs_growth(prt.buff_ptr, prt.curr_buff_size)
           over == prt.buff_ptr + prt.curr_buff_size > prt.curr_buff_size * 2
       IN
       \E nomem \in IF grow THEN BOOLEAN ELSE {FALSE} :
       \E junk \in IF grow /\ ~nomem THEN Indeterminates ELSE {0} :
       \E strict \in IF grow /\ ~nomem /\ over THEN BOOLEAN ELSE {FALSE} :
         prt' =
            IF ~grow THEN [prt EXCEPT !.root = print_next(prt), !.pc = "loop"]
            ELSE IF nomem
            THEN [prt EXCEPT !.owned = "freed", !.pc = "done", !.ret = "null"]
            ELSE LET p == [prt EXCEPT
                             !.buff = memset(realloc(@, prt.curr_buff_size * 2, junk),
                                             prt.buff_ptr, prt.curr_buff_size),
                             !.curr_buff_size = @ * 2,
                             !.root = print_next(prt), !.pc = "loop"]
                 IN  IF over THEN PrintUndefined(p, strict) ELSE p
    /\ UNCHANGED list

\* The end of the list: return buff.
PrintReturn ==
    /\ prt.pc = "loop" /\ prt.root = NULL
    /\ prt' = [prt EXCEPT !.pc = "done", !.ret = "buff"]
    /\ UNCHANGED list

NextPrint == PrintCall \/ PrintPayload \/ PrintGrow \/ PrintReturn

SpecPrint == Init /\ [][NextPrint]_vars

----------------------------------------------------------------------------
(* What the claims speak of.                                               *)

Live(h) == {n \in Ids : h.node[n].st = "live"}

\* The bytes node n stores, read through its holder.
Stored(h, n) ==
    LET data == Field(h, "node", n, "data")
    IN  Field(h, "buf", Field(h, "hold", data, "payload"), "bytes")

\* The list seen from r: its nodes in forward order and what they store.
Nodes(h, r) == Forward(h, r)

\* A.next = B exactly when B.prev = A, over the live nodes.
LinkSymmetry(h) ==
    \A A \in Live(h), B \in Live(h) : (h.node[A].next = B) <=> (h.node[B].prev = A)

\* The list of r has one node without a back-relation and one without a
\* forward relation.
OneRootOneTail(h, r) ==
    LET c == Nodes(h, r) IN
    /\ Cardinality({i \in 1..Len(c) : h.node[c[i]].prev = NULL}) = 1
    /\ Cardinality({i \in 1..Len(c) : h.node[c[i]].next = NULL}) = 1

\* The list of r is made of live nodes, holders and buffers, each buffer of
\* the holder's size and that positive; it ends at a null forward relation
\* and has symmetric links.
WellFormed(h, r) ==
    LET c == Nodes(h, r) IN
    /\ r \in Ids /\ ~Cyclic(c) /\ ChainStop(h, r, c) = NULL
    /\ h.node[r].prev = NULL
    /\ \A i \in 1..Len(c) :
         /\ h.node[c[i]].st = "live"
         /\ Mapped(h, "hold", h.node[c[i]].data)
         /\ h.hold[h.node[c[i]].data].st = "live"
         /\ Mapped(h, "buf", h.hold[h.node[c[i]].data].payload)
         /\ h.buf[h.hold[h.node[c[i]].data].payload].st = "live"
         /\ h.hold[h.node[c[i]].data].size > 0
         /\ Len(Stored(h, c[i])) = h.hold[h.node[c[i]].data].size
         /\ i > 1 => h.node[c[i]].prev = c[i - 1]

\* Only list_init, successful insertions and deletions have run.
OnlyInsertDel == status = "run" /\ ~count.other /\ last.op # "none"

\* The last call was a list_insert of a payload into a list with symmetric
\* links that returned a root.
Inserted ==
    /\ last.op = "insert" /\ last.out = "ret" /\ last.ret # NULL
    /\ last.payload \in Payloads
    /\ WellFormed(last.pre, last.preRoot)

\* The objects of kind k a log allocates, and those it frees.
Allocated(log, k) == {log[i].id : i \in {j \in 1..Len(log) : log[j].e = "alloc" /\ log[j].k = k}}

Released(log, k) == {log[i].id : i \in {j \in 1..Len(log) : log[j].e = "free" /\ log[j].k = k}}

TimesFreed(log, k, id) ==
    Cardinality({j \in 1..Len(log) : log[j] = Ev("free", k, id)})

Kinds == {"node", "hold", "buf"}

----------------------------------------------------------------------------
(* The claims.                                                             *)

\* C1: after list_init and any successful list_insert and list_del calls on
\* the current root, A.next = B iff B.prev = A for all live nodes A and B,
\* and the list of the current root has exactly one node with no prev and
\* exactly one with no next.
C1_LinkSymmetryAlways ==
    OnlyInsertDel =>
        /\ LinkSymmetry(heap)
        /\ root # NULL => OneRootOneTail(heap, root)

\* C2: list_len of the current root equals the number of successful
\* insertions (list_init included) minus the number of successful deletions.
C2_LengthIsInsertsMinusDeletes ==
    OnlyInsertDel =>
        LET x == list_len(Start(heap, FALSE), root)
        IN  x.out = "run" /\ x.ret = count.ins - count.del

\* C3: a successful list_insert of X at position k of a list returns a root r with
\* list_get(r, k) holding X, every element formerly at an index >= k now at
\* index + 1 and every element formerly at an index < k at the same index.
C3_InsertAtPosition ==
    Inserted =>
        LET k == last.pos
            n == Len(Nodes(last.pre, last.preRoot))
            old(i) == list_get(Start(last.pre, FALSE), last.preRoot, i)
            new(i) == list_get(Start(heap, FALSE), last.ret, i)
        IN  /\ new(k).out = "ret" /\ new(k).ret # NULL
            /\ Field(heap, "buf", new(k).ret, "bytes")
                 = SubSeq(last.payload, 1, last.size)
            /\ \A i \in 0..(n - 1) :
                 LET j == IF i >= k THEN i + 1 ELSE i IN
                 /\ new(j).ret = old(i).ret
                 /\ Field(heap, "buf", new(j).ret, "bytes")
                      = Field(last.pre, "buf", old(i).ret, "bytes")

\* The last call was a list_insert in which an allocation failed.
InsertFailed == last.op = "insert" /\ last.fail # "none" /\ Allocates(last)

\* C4: when an allocation of list_insert fails, the call returns absent
\* without faulting, every object it did allocate has been released, it
\* freed nothing it had not allocated, and no link of the existing list has
\* changed.
C4_InsertAllocationFailure ==
    InsertFailed =>
        /\ last.out = "ret" /\ last.ret = NULL /\ ~last.ub
        /\ \A k \in Kinds :
             /\ \A id \in Allocated(last.log, k) : heap[k][id].st = "freed"
             /\ Released(last.log, k) \subseteq Allocated(last.log, k)
        /\ \A n \in Ids : Mapped(last.pre, "node", n) =>
             /\ heap.node[n].next = last.pre.node[n].next
             /\ heap.node[n].prev = last.pre.node[n].prev

\* The positions of the caller's list whose stored payload equals the
\* caller's payload, in length and in every byte.
EqualAt(h, r, payload) ==
    {i \in 1..Len(Nodes(h, r)) : Stored(h, Nodes(h, r)[i]) = payload}

First(S) == CHOOSE i \in S : \A j \in S : i <= j

Without(c, f) == [i \in 1..(Len(c) - 1) |-> IF i < f THEN c[i] ELSE c[i + 1]]

\* C5: in a list holding a node whose payload equals the supplied payload,
\* list_del removes the first such node and no other, keeps the order and
\* the contents of the others, and returns the old root, or the successor
\* of the removed root, or absent when the list is now empty.
C5_DeleteFirstEqual ==
    (/\ last.op = "del" /\ WellFormed(last.pre, last.preRoot)
     /\ EqualAt(last.pre, last.preRoot, last.payload) # {}) =>
        LET c == Nodes(last.pre, last.preRoot)
            f == First(EqualAt(last.pre, last.preRoot, last.payload))
        IN  /\ last.out = "ret"
            /\ Released(last.log, "node") = {c[f]}
            /\ Nodes(heap, last.ret) = Without(c, f)
            /\ \A i \in 1..Len(c) : i # f => Stored(heap, c[i]) = Stored(last.pre, c[i])
            /\ last.ret = IF f > 1 THEN last.preRoot
                          ELSE IF Len(c) > 1 THEN c[2] ELSE NULL

\* The length list_len computes, or -1 when the walk from r meets freed or
\* unallocated memory or never ends.
DefinedLen(h, r) ==
    LET x == list_len(Start(h, TRUE), r)
    IN  IF x.out = "run" THEN x.ret ELSE -1

\* The last call was a list_insert at a position beyond the length.
InsertBeyond ==
    /\ last.op = "insert"
    /\ DefinedLen(last.pre, last.preRoot) >= 0
    /\ last.pos > DefinedLen(last.pre, last.preRoot)

\* C6: list_insert at a position pos > list_len(root) returns absent,
\* allocates nothing and changes no link or payload, so list_len of the
\* original root is what it was.  (list_len(root) has a value when the walk
\* from root ends at a null forward relation through live nodes.)
C6_InsertBeyondRejected ==
    InsertBeyond =>
        /\ last.out = "ret" /\ last.ret = NULL
        /\ last.log = <<>>
        /\ heap = last.pre /\ root = last.preRoot
        /\ DefinedLen(heap, last.preRoot) = DefinedLen(last.pre, last.preRoot)

C6_Witness ==
    /\ InsertBeyond
    /\ last.preRoot # NULL /\ last.payload \in Payloads
    /\ last.ret = NULL /\ DefinedLen(heap, root) >= 2

\* Position of node n in the caller's list, 0 when it is not in it.
IndexOf(h, r, n) ==
    LET S == {i \in 1..Len(Nodes(h, r)) : Nodes(h, r)[i] = n}
    IN  IF S = {} THEN 0 ELSE First(S)

\* Nothing has been freed: the heap was built by calls that allocated and
\* returned normally.
NothingFreed(h) == \A k \in Kinds, i \in Ids : h[k][i].st # "freed"

\* The last call was list_destroy on a node of the caller's list, in a heap
\* where nothing had been freed and every payload has a positive size.
DestroyedFrom ==
    /\ last.op = "destroy" /\ NothingFreed(last.pre)
    /\ \A i \in Ids : last.pre["hold"][i].st = "live" => last.pre["hold"][i].size > 0
    /\ IndexOf(last.pre, last.preRoot, last.node) > 0

\* C7: list_destroy(n), n a node of a list, first sets the forward
\* relation of n's predecessor to absent, then frees n and every node after
\* it once with its payload holder; the nodes before n are not freed and are
\* a list of n's former index many nodes from the original root, contents
\* unchanged.
C7_DestroyFromNode ==
    DestroyedFrom =>
        LET c == Nodes(last.pre, last.preRoot)
            i == IndexOf(last.pre, last.preRoot, last.node)
            gone == {c[j] : j \in i..Len(c)}
        IN  /\ last.out = "ret" /\ ~last.ub
            /\ i > 1 => /\ last.log[1] = Ev("next", "node", c[i - 1])
                        /\ heap.node[c[i - 1]].next = NULL
            /\ Released(last.log, "node") = gone
            /\ \A m \in gone :
                 /\ TimesFreed(last.log, "node", m) = 1
                 /\ TimesFreed(last.log, "hold", last.pre.node[m].data) = 1
            /\ \A j \in 1..(i - 1) : heap.node[c[j]].st = "live"
            /\ i > 1 => /\ Nodes(heap, last.preRoot) = SubSeq(c, 1, i - 1)
                        /\ DefinedLen(heap, last.preRoot) = i - 1
                        /\ \A j \in 1..(i - 1) :
                             Stored(heap, c[j]) = Stored(last.pre, c[j])

\* The stored bytes cannot compare equal to size bytes of the payload:
\* there are size of them and they differ, or there are fewer.
NoMatch(stored, payload, size) ==
    Len(stored) < size \/ SubSeq(stored, 1, size) # SubSeq(payload, 1, size)

\* C8: when no node reachable from the root matches the supplied payload
\* (also when the root is absent), list_del ends the process: it returns no
\* root and has modified and freed nothing.
C8_DeleteMissAborts ==
    (/\ last.op = "del"
     /\ last.preRoot = NULL \/ WellFormed(last.pre, last.preRoot)
     /\ \A i \in 1..Len(Nodes(last.pre, last.preRoot)) :
          NoMatch(Stored(last.pre, Nodes(last.pre, last.preRoot)[i]),
                  last.payload, last.size)) =>
        /\ last.out \in {"abort", "fault"}
        /\ last.log = <<>>
        /\ heap = last.pre

\* C9: list_init and list_insert called with an absent payload or a size of
\* zero return absent, allocate nothing and leave the list as it was.
C9_InvalidArgumentRejected ==
    (/\ last.op \in {"init", "insert"}
     /\ last.payload = NULLP \/ last.size = 0) =>
        /\ last.out = "ret" /\ last.ret = NULL
        /\ ~Allocates(last)
        /\ heap = last.pre

\* The last call was a list_del that removed a node of a list with
\* symmetric links.
DeletedFromWellFormed ==
    /\ last.op = "del" /\ last.out = "ret"
    /\ WellFormed(last.pre, last.preRoot)

\* The node the last call freed.
Deleted == CHOOSE m \in Released(last.log, "node") : TRUE

LinkStores(log) == {j \in 1..Len(log) : log[j].e \in {"next", "prev"}}

Frees(log) == {j \in 1..Len(log) : log[j].e = "free"}

\* C10: from a list with symmetric links list_del re-links the survivors:
\* the only element gives an absent root; the root of a longer list gives
\* the second element with no back-relation; an interior node leaves its
\* neighbours referring to each other; the tail leaves the new tail with no
\* forward relation; the deleted node, its holder and its payload are freed
\* exactly once, after the re-linking.
C10_DeleteRelinks ==
    DeletedFromWellFormed =>
        /\ Cardinality(Released(last.log, "node")) = 1
        /\ LET m == Deleted
               p == last.pre.node[m].prev
               n == last.pre.node[m].next
               data == last.pre.node[m].data
           IN  /\ (p = NULL /\ n = NULL) => last.ret = NULL
               /\ (p = NULL /\ n # NULL) =>
                    last.ret = n /\ heap.node[n].prev = NULL
               /\ (p # NULL /\ n # NULL) =>
                    /\ heap.node[p].next = n /\ heap.node[n].prev = p
                    /\ last.ret = last.preRoot
               /\ (p # NULL /\ n = NULL) =>
                    heap.node[p].next = NULL /\ last.ret = last.preRoot
               /\ last.ret # NULL => WellFormed(heap, last.ret)
               /\ TimesFreed(last.log, "node", m) = 1
               /\ TimesFreed(last.log, "hold", data) = 1
               /\ TimesFreed(last.log, "buf", last.pre.hold[data].payload) = 1
               /\ Cardinality(Frees(last.log)) = 3
               /\ \A i \in LinkStores(last.log), j \in Frees(last.log) : i < j

C10_Witness ==
    /\ DeletedFromWellFormed
    /\ del_case(last.pre, Deleted) = "interior"
    /\ Len(Nodes(heap, root)) = 2

----------------------------------------------------------------------------
(* The claims about the queries, checked under SpecQuery.                  *)

\* Every payload stored in the heap has the positive size of its holder.
PositiveSizes(h) == \A i \in Ids : h.hold[i].st = "live" => h.hold[i].size > 0

\* The last call was list_search from the root of a non-empty list, in a
\* heap where nothing has been freed: the payloads ever inserted are those
\* the live nodes store.
Searched ==
    /\ last.op = "search" /\ last.preRoot # NULL
    /\ NothingFreed(last.pre) /\ PositiveSizes(last.pre)

\* The payload was never inserted: no live node stores it.
NeverInserted(h, payload) == \A n \in Live(h) : Stored(h, n) # payload

\* C11: list_search in a non-empty list, whose payloads may have any
\* lengths, returns absent for a payload that was never inserted and the
\* first node in forward order holding the payload for one that was
\* inserted and not deleted; it changes no link and no payload.
C11_SearchFirstHolder ==
    Searched =>
        LET c == Nodes(last.pre, last.preRoot)
            eq == EqualAt(last.pre, last.preRoot, last.payload)
        IN  /\ last.out = "ret" /\ heap = last.pre
            /\ NeverInserted(last.pre, last.payload) => last.ret = NULL
            /\ ~NeverInserted(last.pre, last.payload) =>
                   eq # {} /\ last.ret = c[First(eq)]

\* The nodes forward of r are live and so are their payload holders.
Readable(h, r) ==
    \A i \in 1..Len(Nodes(h, r)) :
        /\ h.node[Nodes(h, r)[i]].st = "live"
        /\ Mapped(h, "hold", h.node[Nodes(h, r)[i]].data)
        /\ h.hold[h.node[Nodes(h, r)[i]].data].st = "live"

\* The last call was list_get on no reference, or on a reference to live
\* memory from which list_len has a value.
Got ==
    /\ last.op = "get"
    /\ last.node # NULL =>
          DefinedLen(last.pre, last.node) >= 0 /\ Readable(last.pre, last.node)

\* C12: list_get on any node reference (root, non-root or absent) and any
\* position returns absent when pos >= list_len(reference), and otherwise
\* the payload buffer the node pos forward hops from the reference owns,
\* not a copy; it does not modify the list.
C12_GetAtPosition ==
    Got =>
        LET c == Nodes(last.pre, last.node)
            len == IF last.node = NULL THEN 0 ELSE DefinedLen(last.pre, last.node)
        IN  /\ last.out = "ret" /\ ~last.ub
            /\ heap = last.pre /\ last.log = <<>>
            /\ last.pos >= len => last.ret = NULL
            /\ last.pos < len =>
                 /\ last.ret # NULL
                 /\ last.ret = last.pre.hold[last.pre.node[c[last.pos + 1]].data].payload

C12_Witness ==
    /\ Got /\ last.node \notin {NULL, last.preRoot}
    /\ last.pos = 1 /\ last.ret # NULL
    /\ last.pre.buf[last.ret].st = "live"

\* The last call was list_init or a successful list_insert of the L bytes
\* of a payload P.
Constructed ==
    /\ last.op \in {"init", "insert"} /\ last.out = "ret" /\ last.ret # NULL
    /\ last.payload # NULLP

\* The node the last call allocated.
NewNode == CHOOSE n \in Ids : n \in Allocated(last.log, "node")

\* C13: list_init and a successful list_insert of a payload P of length L
\* leave the new node with stored size L and stored bytes equal to P, in a
\* buffer the call allocated and nothing else refers to; a later change of
\* the caller's buffer leaves the stored bytes as they are.
C13_PayloadCopied ==
    /\ Constructed =>
          LET data == heap.node[NewNode].data
              buf == heap.hold[data].payload
          IN  /\ Allocated(last.log, "node") = {NewNode}
              /\ Allocated(last.log, "hold") = {data}
              /\ Allocated(last.log, "buf") = {buf}
              /\ ~Mapped(last.pre, "buf", buf)
              /\ \A h \in Ids : heap.hold[h].payload = buf => h = data
              /\ heap.hold[data].size = last.size
              /\ Stored(heap, NewNode) = last.payload
              /\ Len(Stored(heap, NewNode)) = last.size
    /\ last.op = "write" =>
          /\ Stored(heap, last.node) = Scribble(last.payload)
          /\ Stored(heap, last.node) # last.payload \/ last.size = 0

C13_Witness ==
    /\ last.op = "write" /\ last.size = 2 /\ last.pos = 1
    /\ Stored(heap, last.node) = <<1, 2>>

\* The last call was list_init with one of its three allocations failing.
InitFailed == last.op = "init" /\ last.fail # "none"

\* C14: when the allocation of the payload holder, of the payload buffer
\* or of the node record fails, list_init returns absent and has freed
\* once every allocation that succeeded before; it writes only to what it
\* allocated, so the caller's buffer is as it was.
C14_InitAllocationFailure ==
    InitFailed =>
        /\ last.out = "ret" /\ last.ret = NULL /\ ~last.ub
        /\ Allocated(last.log, "hold") = IF last.fail = "data" THEN {} ELSE {Fresh(last.pre, "hold")}
        /\ Allocated(last.log, "buf") = IF last.fail = "node" THEN {Fresh(last.pre, "buf")} ELSE {}
        /\ Allocated(last.log, "node") = {}
        /\ \A k \in Kinds :
             /\ Released(last.log, k) = Allocated(last.log, k)
             /\ \A id \in Allocated(last.log, k) : TimesFreed(last.log, k, id) = 1
             /\ \A id \in Ids : (heap[k][id].st = "live") <=> (last.pre[k][id].st = "live")
        /\ \A j \in 1..Len(last.log) :
             last.log[j].e \notin {"alloc", "nomem", "free"} =>
                 last.log[j].id \in Allocated(last.log, last.log[j].k)

C14_Witness ==
    /\ InitFailed /\ last.fail = "node"
    /\ Released(last.log, "hold") # {} /\ Released(last.log, "buf") # {}

----------------------------------------------------------------------------
(* The claims about the structure left by insertions, checked under Spec.  *)

\* C18: a successful list_insert on the root of a list leaves the links of
\* its splice case: appended (pos = length), the new node has no next, its
\* prev is the former tail, whose next is the new node, and the root is
\* returned; prepended (pos = 0), the new node's next is the old root, it
\* has no prev, the old root's prev is the new node, which is returned; in
\* the middle (0 < pos < length), predecessor.next = new, new.prev =
\* predecessor, new.next = insertion point, insertion point.prev = new, and
\* the root is returned.
C18_SpliceLinks ==
    Inserted =>
        LET c == Nodes(last.pre, last.preRoot)
            n == Len(c)
            new == heap.node[NewNode]
        IN  /\ last.pos = n =>
                 /\ new.next = NULL /\ new.prev = c[n]
                 /\ heap.node[c[n]].next = NewNode
                 /\ last.ret = last.preRoot
            /\ last.pos = 0 =>
                 /\ new.next = last.preRoot /\ new.prev = NULL
                 /\ heap.node[last.preRoot].prev = NewNode
                 /\ last.ret = NewNode
            /\ (0 < last.pos /\ last.pos < n) =>
                 /\ heap.node[c[last.pos]].next = NewNode
                 /\ new.prev = c[last.pos]
                 /\ new.next = c[last.pos + 1]
                 /\ heap.node[c[last.pos + 1]].prev = NewNode
                 /\ last.ret = last.preRoot

\* Every node, holder and buffer ever allocated has been freed.
AllReleased(h) == \A k \in Kinds, i \in Ids : h[k][i].st # "live"

\* C19: after list_init, successful list_insert and list_del calls and a
\* final list_destroy on the current root, every node and payload holder
\* those calls allocated has been freed, and freed once.
C19_NoNodeLeaked ==
    [][(/\ OnlyInsertDel /\ PositiveSizes(heap) /\ root # NULL
        /\ last'.op = "destroy" /\ last'.node = root)
       => (/\ last'.out = "ret" /\ ~last'.ub
           /\ AllReleased(heap'))]_vars

\* The references the caller has to the list of r: its nodes in forward
\* order and the nodes their back-relations name.
Held(h, r) ==
    ({Nodes(h, r)[i] : i \in 1..Len(Nodes(h, r))}
     \cup {h.node[Nodes(h, r)[i]].prev : i \in 1..Len(Nodes(h, r))}) \ {NULL}

\* C20: after list_init and successful list_insert and list_del calls, the
\* forward relations from any live node the caller holds (the root or a
\* node a back-relation names) end at an absent relation, so that
\* list_len, list_search and list_destroy from it terminate.
C20_ForwardChainEnds ==
    (OnlyInsertDel /\ PositiveSizes(heap)) =>
        \A n \in Held(heap, root) \cap Live(heap) :
            /\ ~Cyclic(Forward(heap, n))
            /\ list_len(Start(heap, FALSE), n).out # "hang"
            /\ list_search(Start(heap, FALSE), n, <<1>>, 1, {}).out # "hang"
            /\ list_destroy(Start(heap, FALSE), n).out # "hang"

----------------------------------------------------------------------------
(* The claims about list_print, checked under SpecPrint.                   *)

\* C15: list_print invokes the callback once per node in forward order up
\* to the end of the list or the first callback failure, and whenever it
\* returns absent (callback failure, growth allocation failure, absent
\* callback) no output buffer it allocated is still allocated.
C15_PrintCallsAndRelease ==
    prt.pc = "done" =>
        /\ \A i \in 1..Len(prt.calls) : prt.calls[i] = i
        /\ prt.ret = "buff" => Len(prt.calls) = prt.n
        /\ prt.ret = "null" => prt.owned # "live"

\* Every callback invocation so far wrote at most REALLOC_THRESHOLD bytes
\* and list_print is about to invoke the callback.
BeforeCallback == prt.pc = "loop" /\ prt.root # NULL /\ prt.within

\* C16: when every callback invocation writes at most REALLOC_THRESHOLD
\* bytes, before each callback invocation the buffer capacity minus the
\* write cursor is at least REALLOC_THRESHOLD, whatever the list's length.
C16_PrintHeadroom ==
    BeforeCallback =>
        /\ Len(prt.buff) = prt.curr_buff_size
        /\ prt.curr_buff_size - prt.buff_ptr >= REALLOC_THRESHOLD

C16_Witness ==
    /\ BeforeCallback /\ Len(prt.calls) = 3
    /\ prt.curr_buff_size = 2 * LIST_PRINT_BUFF_SIZE
    /\ prt.curr_buff_size - prt.buff_ptr = REALLOC_THRESHOLD

\* C17: when every callback invocation writes at most REALLOC_THRESHOLD
\* bytes, after each loop iteration and on return every byte of the buffer
\* from the write cursor up to the capacity is zero, the bytes obtained by
\* a doubling included.
C17_PrintZeroBeyondCursor ==
    (/\ prt.within
     /\ \/ prt.pc = "loop" /\ prt.calls # <<>>
        \/ prt.pc = "done" /\ prt.ret = "buff") =>
        \A i \in (prt.buff_ptr + 1)..Len(prt.buff) : prt.buff[i] = 0

====
